---- MODULE Spec2Model ----
(***************************************************************************)
(* Model of flopy/utils/zonbud.py: the ZoneBudget engine (get_budget and   *)
(* its accumulators) and the Budget wrapper (totals, percent error).       *)
(*                                                                         *)
(* Arrays over the model grid are sequences indexed by the 1-based C-order *)
(* linear cell index; a cell's 0-based (layer, row, column) is recovered   *)
(* by Lay/Row/Col.  Flux values are integers (the sums the code forms are  *)
(* exact on them); a quotient is an exact rational.  The zip(...) + zip()  *)
(* concatenations of the accumulators are list concatenations, as under    *)
(* the Python 2 interpreter the module was written for.                    *)
(***************************************************************************)
EXTENDS Integers, Sequences, FiniteSets, TLC

VARIABLES
    cbc,            \* the CellBudgetFile behind the engine (self.cbc): shape, names, imeth, data
    zonbudrecords,  \* self.zonbudrecords: the record array being accumulated
    pc,             \* position of the engine inside get_budget
    zarg,           \* get_budget parameter z, until the zone array izone is made of it
    izone,          \* get_budget local: the 3-D zone array
    lstzon,         \* get_budget local: sorted unique zone numbers
    ich,            \* get_budget local: constant-head indicator array
    swiich,         \* get_budget local: SWI constant-head indicator array (or unbound)
    reclist,        \* get_budget local: record names still to be processed
    tsel,           \* the time step selected by the call's keyword arguments
    queue,          \* _update_record calls computed by the running accumulator, not yet made
    nzgt,           \* accumulator locals of the last accumulator run: its record, its
                    \* (from_zone, to_zone, flux) tuples and its constant-head writes
    budin,          \* get_budget local: positive part of the current source/sink term
    budout,         \* get_budget local: negative part of the current source/sink term
    err,            \* the exception that ended the last call, if any
    budget,         \* the Budget returned by the last successful call (its records)
    pcterr,         \* the last result of Budget.get_percent_error
    first           \* history: input and result of the first completed call, and whether
                    \* a call with another input has completed since (reuse tracking)

vars == <<cbc, zonbudrecords, pc, zarg, izone, lstzon, ich, swiich, reclist, tsel,
          queue, nzgt, budin, budout, err, budget, pcterr, first>>

(***************************************************************************)
(* Bounds of the model                                                     *)
(***************************************************************************)
MaxZone == 2
MaxListLen == 3

\* values of what is not there: no array, no record array, no exception
NoArray == <<>>
NoArg == [shape |-> <<>>, vals |-> <<>>]
NoRecords == [fields |-> <<>>, rows |-> <<>>]
NoError == [line |-> 0, kind |-> "none", info |-> <<>>]
NoResult == [set |-> FALSE, val |-> <<>>]
NoTuples == [recname |-> "", tuples |-> <<>>, chd |-> <<>>]

Abs(x) == IF x < 0 THEN -x ELSE x
Range(f) == {f[i] : i \in DOMAIN f}

RECURSIVE SumSeq(_)
SumSeq(s) == IF s = <<>> THEN 0 ELSE Head(s) + SumSeq(Tail(s))

RECURSIVE SortSet(_)
SortSet(S) ==
    IF S = {} THEN <<>>
    ELSE LET m == CHOOSE x \in S : \A y \in S : x <= y
         IN  <<m>> \o SortSet(S \ {m})

(***************************************************************************)
(* Grid geometry                                                           *)
(***************************************************************************)
NCells(shape) == shape[1] * shape[2] * shape[3]
Lay(shape, i) == (i - 1) \div (shape[2] * shape[3])
Row(shape, i) == ((i - 1) \div shape[3]) % shape[2]
Col(shape, i) == (i - 1) % shape[3]

\* the cells in C order, the order in which np.where lists those it selects
Cells(shape) == [i \in 1..NCells(shape) |-> i]

Zeros(shape) == [i \in 1..NCells(shape) |-> 0]

(***************************************************************************)
(* The record array (Ledger)                                               *)
(***************************************************************************)
Rec(name) == <<name>>
FromZone(z) == <<"FROM ZONE", z>>
ToZone(z) == <<"TO ZONE", z>>

InternalFlowTerms ==
    {"CONSTANT HEAD", "FLOW RIGHT FACE", "FLOW FRONT FACE", "FLOW LOWER FACE",
     "SWIADDTOCH", "SWIADDTOFRF", "SWIADDTOFFF", "SWIADDTOFLF"}

record_names == cbc.names
ssst_record_names == SelectSeq(cbc.names, LAMBDA n : n \notin InternalFlowTerms)
InNames(n, names) == \E k \in 1..Len(names) : names[k] = n

\* ZoneFields with a column for zone 0 as well
ZoneFieldsWithNull(lst) == lst

\* the zone columns of a record array built for lstzon
ZoneFields(lst) == SelectSeq(lst, LAMBDA z : z # 0)

BuildEmptyRecord(flow_dir, recname, lst) ==
    [flow_dir |-> flow_dir, record |-> recname,
     vals |-> [z \in Range(ZoneFields(lst)) |-> 0]]

InitializeRecordsStale(lst) ==
    IF zonbudrecords # NoRecords /\ zonbudrecords.fields = ZoneFields(lst)
    THEN zonbudrecords
    ELSE [fields |-> ZoneFields(lst), rows |-> <<>>]

\* InitializeRecords with the zone rows of a direction ahead of its term rows
InitializeRecordsZonesFirst(lst) ==
    LET chd(d) == IF InNames("CONSTANT HEAD", record_names)
                  THEN <<BuildEmptyRecord(d, Rec("CONSTANT HEAD"), lst)>> ELSE <<>>
        ssst(d) == [k \in 1..Len(ssst_record_names) |->
                       BuildEmptyRecord(d, Rec(ssst_record_names[k]), lst)]
        zin == [k \in 1..Len(lst) |-> BuildEmptyRecord("in", FromZone(lst[k]), lst)]
        zout == [k \in 1..Len(lst) |-> BuildEmptyRecord("out", ToZone(lst[k]), lst)]
    IN  [fields |-> ZoneFields(lst),
         rows |-> zin \o chd("in") \o ssst("in") \o zout \o chd("out") \o ssst("out")]

InitializeRecords(lst) ==
    LET chd(d) == IF InNames("CONSTANT HEAD", record_names)
                  THEN <<BuildEmptyRecord(d, Rec("CONSTANT HEAD"), lst)>> ELSE <<>>
        ssst(d) == [k \in 1..Len(ssst_record_names) |->
                       BuildEmptyRecord(d, Rec(ssst_record_names[k]), lst)]
        zin == [k \in 1..Len(lst) |-> BuildEmptyRecord("in", FromZone(lst[k]), lst)]
        zout == [k \in 1..Len(lst) |-> BuildEmptyRecord("out", ToZone(lst[k]), lst)]
    IN  [fields |-> ZoneFields(lst),
         rows |-> chd("in") \o ssst("in") \o zin \o chd("out") \o ssst("out") \o zout]

update_record(recs, flow_dir, recname, zone, flux) ==
    IF zone # 0
    THEN [recs EXCEPT !.rows =
            [k \in 1..Len(recs.rows) |->
                IF recs.rows[k].flow_dir = flow_dir /\ recs.rows[k].record = recname
                THEN [recs.rows[k] EXCEPT !.vals[zone] = @ + flux]
                ELSE recs.rows[k]]]
    ELSE recs

(***************************************************************************)
(* Flow between zones: the tuples and the _update_record calls of the      *)
(* three accumulators.  A tuple also carries the cell whose face flow it   *)
(* was read from (face) and the pass that produced it.                     *)
(***************************************************************************)
\* what one selected cell reads: from_zones, to_zones and q at that cell, and
\* the cell whose face flow q is
FaceRead(fz, tz, q, face) == [fz |-> fz, tz |-> tz, q |-> q, face |-> face]

\* ZipNeg with the tuple read in the order it was built (to, from, flux)
ZipNegAsBuilt(reads, pass) ==
    LET neg == SelectSeq(reads, LAMBDA r : r.q < 0)
    IN  [k \in 1..Len(neg) |->
            [from_zone |-> neg[k].fz, to_zone |-> neg[k].tz,
             flux |-> Abs(neg[k].q), face |-> neg[k].face, pass |-> pass]]

\* zip(to_zones[idx_neg], from_zones[idx_neg], abs(q[idx_neg])), read as
\* (from_zone, to_zone, flux) by the loops that consume it
ZipNeg(reads, pass) ==
    LET neg == SelectSeq(reads, LAMBDA r : r.q < 0)
    IN  [k \in 1..Len(neg) |->
            [from_zone |-> neg[k].tz, to_zone |-> neg[k].fz,
             flux |-> Abs(neg[k].q), face |-> neg[k].face, pass |-> pass]]

\* ZipPos with from_zones and to_zones exchanged
ZipPosSwapped(reads, pass) ==
    LET pos == SelectSeq(reads, LAMBDA r : r.q >= 0)
    IN  [k \in 1..Len(pos) |->
            [from_zone |-> pos[k].tz, to_zone |-> pos[k].fz,
             flux |-> Abs(pos[k].q), face |-> pos[k].face, pass |-> pass]]

\* zip(from_zones[idx_pos], to_zones[idx_pos], abs(q[idx_pos]))
ZipPos(reads, pass) ==
    LET pos == SelectSeq(reads, LAMBDA r : r.q >= 0)
    IN  [k \in 1..Len(pos) |->
            [from_zone |-> pos[k].fz, to_zone |-> pos[k].tz,
             flux |-> Abs(pos[k].q), face |-> pos[k].face, pass |-> pass]]

\* NoChToCh leaving the flux between two constant-head cells in place
NoChToChKeep(q, ch, a, b) == q

\* q[(ich[a] == 1) & (ich[b] == 1)] = 0. applied to the copy q of the face flow
NoChToCh(q, ch, a, b) == IF ch[a] = 1 /\ ch[b] = 1 THEN 0 ELSE q

\* the two loops over chdneg and chdpos; a write also carries the face and
\* the pass of its tuple
ChdWrites(chdneg, chdpos) ==
    [k \in 1..Len(chdneg) |->
        [flow_dir |-> "in", record |-> Rec("CONSTANT HEAD"),
         zone |-> chdneg[k].to_zone, flux |-> chdneg[k].flux, kind |-> "chd",
         face |-> chdneg[k].face, pass |-> chdneg[k].pass]]
    \o
    [k \in 1..Len(chdpos) |->
        [flow_dir |-> "out", record |-> Rec("CONSTANT HEAD"),
         zone |-> chdpos[k].from_zone, flux |-> chdpos[k].flux, kind |-> "chd",
         face |-> chdpos[k].face, pass |-> chdpos[k].pass]]

\* NzgtWrites with the second call updating the column of to_zone
NzgtWritesSameColumn(tuples) ==
    [k \in 1..(2 * Len(tuples)) |->
        LET t == tuples[(k + 1) \div 2]
        IN  IF k % 2 = 1
            THEN [flow_dir |-> "in", record |-> FromZone(t.from_zone),
                  zone |-> t.to_zone, flux |-> t.flux, kind |-> "from"]
            ELSE [flow_dir |-> "out", record |-> ToZone(t.to_zone),
                  zone |-> t.to_zone, flux |-> t.flux, kind |-> "to"]]

\* the loop over nzgt: two _update_record calls per tuple
NzgtWrites(tuples) ==
    [k \in 1..(2 * Len(tuples)) |->
        LET t == tuples[(k + 1) \div 2]
        IN  IF k % 2 = 1
            THEN [flow_dir |-> "in", record |-> FromZone(t.from_zone),
                  zone |-> t.to_zone, flux |-> t.flux, kind |-> "from"]
            ELSE [flow_dir |-> "out", record |-> ToZone(t.to_zone),
                  zone |-> t.from_zone, flux |-> t.flux, kind |-> "to"]]

(* _accumulate_flow_frf: flow across columns; the neighbour of cell i is i-1 / i+1 *)
\* FrfL2R selecting the cells whose zone is not less than the left neighbour's
FrfL2RNotLess(shape, bud, iz, ch) ==
    LET cells == SelectSeq(Cells(shape), LAMBDA i : Col(shape, i) >= 1 /\ iz[i] >= iz[i - 1])
        reads == [k \in 1..Len(cells) |->
                     FaceRead(iz[cells[k] - 1], iz[cells[k]],
                              NoChToCh(bud[cells[k] - 1], ch, cells[k], cells[k] - 1),
                              cells[k] - 1)]
    IN  ZipNeg(reads, "fwd") \o ZipPos(reads, "fwd")

FrfL2R(shape, bud, iz, ch) ==
    LET cells == SelectSeq(Cells(shape), LAMBDA i : Col(shape, i) >= 1 /\ iz[i] > iz[i - 1])
        FZ(i) == iz[i - 1]
        TZ(i) == iz[i]
        Q(i) == NoChToCh(bud[i - 1], ch, i, i - 1)
        F(i) == i - 1
        reads == [k \in 1..Len(cells) |->
                     FaceRead(FZ(cells[k]), TZ(cells[k]), Q(cells[k]), F(cells[k]))]
    IN  ZipNeg(reads, "fwd") \o ZipPos(reads, "fwd")

\* FrfChdL2R kept to the constant-head cells in the zone of their left neighbour
FrfChdL2RSameZone(shape, bud, iz, ch) ==
    LET cells == SelectSeq(Cells(shape),
                           LAMBDA i : ch[i] = 1 /\ Col(shape, i) > 0 /\ iz[i] = iz[i - 1])
        reads == [k \in 1..Len(cells) |->
                     FaceRead(iz[cells[k] - 1], iz[cells[k]],
                              NoChToCh(bud[cells[k] - 1], ch, cells[k], cells[k] - 1),
                              cells[k] - 1)]
    IN  ChdWrites(ZipNeg(reads, "fwd"), ZipPos(reads, "fwd"))

FrfChdL2R(shape, bud, iz, ch) ==
    LET cells == SelectSeq(Cells(shape), LAMBDA i : ch[i] = 1 /\ Col(shape, i) > 0)
        FZ(i) == iz[i - 1]
        TZ(i) == iz[i]
        Q(i) == NoChToCh(bud[i - 1], ch, i, i - 1)
        F(i) == i - 1
        reads == [k \in 1..Len(cells) |->
                     FaceRead(FZ(cells[k]), TZ(cells[k]), Q(cells[k]), F(cells[k]))]
    IN  ChdWrites(ZipNeg(reads, "fwd"), ZipPos(reads, "fwd"))

FrfR2L(shape, bud, iz, ch) ==
    LET cells == SelectSeq(Cells(shape), LAMBDA i : Col(shape, i) <= shape[3] - 2 /\ iz[i] > iz[i + 1])
        FZ(i) == iz[i]
        TZ(i) == iz[i + 1]
        Q(i) == NoChToCh(bud[i], ch, i, i + 1)
        F(i) == i
        reads == [k \in 1..Len(cells) |->
                     FaceRead(FZ(cells[k]), TZ(cells[k]), Q(cells[k]), F(cells[k]))]
    IN  ZipNeg(reads, "bwd") \o ZipPos(reads, "bwd")

FrfChdR2L(shape, bud, iz, ch) ==
    LET cells == SelectSeq(Cells(shape), LAMBDA i : ch[i] = 1 /\ Col(shape, i) < shape[3] - 1)
        FZ(i) == iz[i]
        TZ(i) == iz[i + 1]
        Q(i) == NoChToCh(bud[i], ch, i, i + 1)
        F(i) == i
        reads == [k \in 1..Len(cells) |->
                     FaceRead(FZ(cells[k]), TZ(cells[k]), Q(cells[k]), F(cells[k]))]
    IN  ChdWrites(ZipNeg(reads, "bwd"), ZipPos(reads, "bwd"))

(* _accumulate_flow_fff: flow across rows; the neighbour of cell i is i-ncol / i+ncol *)
FffU2D(shape, bud, iz, ch) ==
    LET n == shape[3]
        cells == SelectSeq(Cells(shape), LAMBDA i : Row(shape, i) >= 1 /\ iz[i] < iz[i - n])
        FZ(i) == iz[i - n]
        TZ(i) == iz[i]
        Q(i) == NoChToCh(bud[i - n], ch, i, i - n)
        F(i) == i - n
        reads == [k \in 1..Len(cells) |->
                     FaceRead(FZ(cells[k]), TZ(cells[k]), Q(cells[k]), F(cells[k]))]
    IN  ZipNeg(reads, "fwd") \o ZipPos(reads, "fwd")

FffChdU2D(shape, bud, iz, ch) ==
    LET n == shape[3]
        cells == SelectSeq(Cells(shape), LAMBDA i : ch[i] = 1 /\ Row(shape, i) > 0)
        FZ(i) == iz[i - n]
        TZ(i) == iz[i]
        Q(i) == NoChToCh(bud[i - n], ch, i, i - n)
        F(i) == i - n
        reads == [k \in 1..Len(cells) |->
                     FaceRead(FZ(cells[k]), TZ(cells[k]), Q(cells[k]), F(cells[k]))]
    IN  ChdWrites(ZipNeg(reads, "fwd"), ZipPos(reads, "fwd"))

FffD2U(shape, bud, iz, ch) ==
    LET n == shape[3]
        cells == SelectSeq(Cells(shape), LAMBDA i : Row(shape, i) <= shape[2] - 2 /\ iz[i] < iz[i + n])
        FZ(i) == iz[i]
        TZ(i) == iz[i + n]
        Q(i) == NoChToCh(bud[i], ch, i, i + n)
        F(i) == i
        reads == [k \in 1..Len(cells) |->
                     FaceRead(FZ(cells[k]), TZ(cells[k]), Q(cells[k]), F(cells[k]))]
    IN  ZipNeg(reads, "bwd") \o ZipPos(reads, "bwd")

FffChdD2U(shape, bud, iz, ch) ==
    LET n == shape[3]
        cells == SelectSeq(Cells(shape), LAMBDA i : ch[i] = 1 /\ Row(shape, i) < shape[2] - 1)
        FZ(i) == iz[i]
        TZ(i) == iz[i + n]
        Q(i) == NoChToCh(bud[i], ch, i, i + n)
        F(i) == i
        reads == [k \in 1..Len(cells) |->
                     FaceRead(FZ(cells[k]), TZ(cells[k]), Q(cells[k]), F(cells[k]))]
    IN  ChdWrites(ZipNeg(reads, "bwd"), ZipPos(reads, "bwd"))

(* _accumulate_flow_flf: flow across layers; the neighbour of cell i is i-nrow*ncol / i+nrow*ncol *)
FlfT2B(shape, bud, iz, ch) ==
    LET n == shape[2] * shape[3]
        cells == SelectSeq(Cells(shape), LAMBDA i : Lay(shape, i) >= 1 /\ iz[i] > iz[i - n])
        FZ(i) == iz[i - n]
        TZ(i) == iz[i]
        Q(i) == NoChToCh(bud[i - n], ch, i, i - n)
        F(i) == i - n
        reads == [k \in 1..Len(cells) |->
                     FaceRead(FZ(cells[k]), TZ(cells[k]), Q(cells[k]), F(cells[k]))]
    IN  ZipNeg(reads, "fwd") \o ZipPos(reads, "fwd")

FlfChdT2B(shape, bud, iz, ch) ==
    LET n == shape[2] * shape[3]
        cells == SelectSeq(Cells(shape), LAMBDA i : ch[i] = 1 /\ Lay(shape, i) > 0)
        FZ(i) == iz[i - n]
        TZ(i) == iz[i]
        Q(i) == NoChToCh(bud[i - n], ch, i, i - n)
        F(i) == i - n
        reads == [k \in 1..Len(cells) |->
                     FaceRead(FZ(cells[k]), TZ(cells[k]), Q(cells[k]), F(cells[k]))]
    IN  ChdWrites(ZipNeg(reads, "fwd"), ZipPos(reads, "fwd"))

FlfB2T(shape, bud, iz, ch) ==
    LET n == shape[2] * shape[3]
        cells == SelectSeq(Cells(shape), LAMBDA i : Lay(shape, i) <= shape[1] - 2 /\ iz[i] < iz[i + n])
        FZ(i) == iz[i]
        TZ(i) == iz[i + n]
        Q(i) == NoChToCh(bud[i], ch, i, i + n)
        F(i) == i
        reads == [k \in 1..Len(cells) |->
                     FaceRead(FZ(cells[k]), TZ(cells[k]), Q(cells[k]), F(cells[k]))]
    IN  ZipNeg(reads, "bwd") \o ZipPos(reads, "bwd")

FlfChdB2T(shape, bud, iz, ch) ==
    LET n == shape[2] * shape[3]
        cells == SelectSeq(Cells(shape), LAMBDA i : ch[i] = 1 /\ Lay(shape, i) < shape[1] - 1)
        FZ(i) == iz[i]
        TZ(i) == iz[i + n]
        Q(i) == NoChToCh(bud[i], ch, i, i + n)
        F(i) == i
        reads == [k \in 1..Len(cells) |->
                     FaceRead(FZ(cells[k]), TZ(cells[k]), Q(cells[k]), F(cells[k]))]
    IN  ChdWrites(ZipNeg(reads, "bwd"), ZipPos(reads, "bwd"))

(***************************************************************************)
(* Source/sink/storage terms: get_budget's split of a term by sign, and    *)
(* _accumulate_flow_ssst                                                   *)
(***************************************************************************)
RECURSIVE ScatterList(_, _, _)
\* the loop over zip(data['node'], data['q']): idx = node - 1 is the 0-based
\* position in the flat array, which is position idx + 1 of the sequence
ScatterListOverwrite(entries, bin, bout) ==
    IF entries = <<>> THEN [budin |-> bin, budout |-> bout]
    ELSE LET node == Head(entries).node
             q == Head(entries).q
             idx == node - 1
         IN  IF q > 0 THEN ScatterList(Tail(entries), [bin EXCEPT ![idx + 1] = q], bout)
             ELSE IF q < 0 THEN ScatterList(Tail(entries), bin, [bout EXCEPT ![idx + 1] = q])
             ELSE ScatterList(Tail(entries), bin, bout)

ScatterList(entries, bin, bout) ==
    IF entries = <<>> THEN [budin |-> bin, budout |-> bout]
    ELSE LET node == Head(entries).node
             q == Head(entries).q
             idx == node - 1
         IN  IF q > 0 THEN ScatterList(Tail(entries), [bin EXCEPT ![idx + 1] = @ + q], bout)
             ELSE IF q < 0 THEN ScatterList(Tail(entries), bin, [bout EXCEPT ![idx + 1] = @ + q])
             ELSE ScatterList(Tail(entries), bin, bout)

\* budin[data > 0] = data[data > 0]; budout[data < 0] = data[data < 0]
SplitBySign(data) ==
    [budin |-> [i \in 1..Len(data) |-> IF data[i] > 0 THEN data[i] ELSE 0],
     budout |-> [i \in 1..Len(data) |-> IF data[i] < 0 THEN data[i] ELSE 0]]

\* imeth 3: data[l - 1, r, c] = rdata[r, c] for the layer l that rlay gives cell (r, c)
LayerIndicated(shape, rlay, rdata) ==
    LET n == shape[2] * shape[3]
    IN  [i \in 1..NCells(shape) |->
            LET p == ((i - 1) % n) + 1
            IN  IF rlay[p] - 1 = Lay(shape, i) THEN rdata[p] ELSE 0]

\* imeth 4: the plane is layer 0 of the volume
TopLayer(shape, data) ==
    LET n == shape[2] * shape[3]
    IN  [i \in 1..NCells(shape) |-> IF i <= n THEN data[i] ELSE 0]

KnownImeth == {0, 1, 2, 3, 4, 5}

Normalize(imeth, data, shape) ==
    CASE imeth \in {2, 5} -> ScatterList(data, Zeros(shape), Zeros(shape))
      [] imeth \in {0, 1} -> SplitBySign(data)
      [] imeth = 3 -> SplitBySign(LayerIndicated(shape, data.rlay, data.rdata))
      [] imeth = 4 -> SplitBySign(TopLayer(shape, data))

\* SumZone summing over every cell, whatever its zone
SumZoneAll(arr, iz, z) == SumSeq(arr)

\* budin[(izone == z)].sum()
SumZone(arr, iz, z) == SumSeq([i \in 1..Len(arr) |-> IF iz[i] = z THEN arr[i] ELSE 0])

SsstWrites(recname, bin, bout, iz, lst) ==
    [k \in 1..Len(lst) |->
        [flow_dir |-> "in", record |-> Rec(recname), zone |-> lst[k],
         flux |-> Abs(SumZone(bin, iz, lst[k])), kind |-> "ssst"]]
    \o
    [k \in 1..Len(lst) |->
        [flow_dir |-> "out", record |-> Rec(recname), zone |-> lst[k],
         flux |-> Abs(SumZone(bout, iz, lst[k])), kind |-> "ssst"]]

(***************************************************************************)
(* Budget: totals and percent error.  A float quotient is the exact        *)
(* rational n/d in lowest terms, or nan / inf.                             *)
(***************************************************************************)
RECURSIVE Gcd(_, _)
Gcd(a, b) == IF b = 0 THEN a ELSE Gcd(b, a % b)

Num(n, d) == [kind |-> "num", n |-> n, d |-> d]
NaN == [kind |-> "nan", n |-> 0, d |-> 0]
Inf(sign) == [kind |-> "inf", n |-> sign, d |-> 0]
\* the largest finite float, with the sign given
MaxFloat(sign) == [kind |-> "max", n |-> sign, d |-> 0]

Frac(n, d) ==
    IF d = 0 THEN (IF n = 0 THEN NaN ELSE Inf(IF n > 0 THEN 1 ELSE -1))
    ELSE LET g == Gcd(Abs(n), Abs(d))
             sg == IF d < 0 THEN -1 ELSE 1
         IN  Num((sg * n) \div g, (sg * d) \div g)

\* NanToNum leaving nan and inf in place
NanToNumIdentity(x) == x

\* np.nan_to_num
NanToNum(x) ==
    IF x.kind = "nan" THEN Num(0, 1)
    ELSE IF x.kind = "inf" THEN MaxFloat(x.n)
    ELSE x

ColumnSum(records, flow_dir, z) ==
    SumSeq([k \in 1..Len(records.rows) |->
               IF records.rows[k].flow_dir = flow_dir THEN records.rows[k].vals[z] ELSE 0])

get_total_inflow(records) ==
    [z \in Range(records.fields) |-> ColumnSum(records, "in", z)]

get_total_outflow(records) ==
    [z \in Range(records.fields) |-> ColumnSum(records, "out", z)]

\* 100 * ins_minus_out / (ins_plus_out / 2.), an integer divided by the rational ins_plus_out/2
PctErrRaw(ins_minus_out, ins_plus_out) == Frac(100 * ins_minus_out * 2, ins_plus_out)

get_percent_error(records) ==
    LET ins == get_total_inflow(records)
        out == get_total_outflow(records)
    IN  [z \in Range(records.fields) |->
            NanToNum(PctErrRaw(ins[z] - out[z], ins[z] + out[z]))]

(***************************************************************************)
(* get_budget: validation of the keyword arguments and of the zone array   *)
(***************************************************************************)
Unbound == NoArray

Error(line, kind, info) == [line |-> line, kind |-> kind, info |-> info]

\* lines 201-212: kw is [key |-> "kstpkper" | "totim" | "none", val |-> a time step]
TimeError(kw) ==
    IF kw.key = "kstpkper"
    THEN (IF kw.val \in 1..Len(cbc.data) THEN NoError
          ELSE Error(204, "MissingTimeSelector", <<kw.val>>))
    ELSE IF kw.key = "totim"
    THEN (IF kw.val \in 1..Len(cbc.data) THEN NoError
          ELSE Error(208, "MissingTimeSelector", <<kw.val>>))
    ELSE Error(212, "NoTimeSelectorProvided", <<>>)

\* line 216: [iz for iz in np.unique(z) if iz < 0]
NegativeZones(z) == SortSet({v \in Range(z.vals) : v < 0})

\* izone[0, :, :] = z[:, :] broadcasts z to (nrow, ncol) when each of its
\* dimensions is 1 or the target's
Broadcastable(zshape, nrow, ncol) ==
    /\ zshape[1] \in {1, nrow}
    /\ zshape[2] \in {1, ncol}

Broadcast(z, nrow, ncol) ==
    [i \in 1..(nrow * ncol) |->
        LET r == IF z.shape[1] = 1 THEN 0 ELSE (i - 1) \div ncol
            c == IF z.shape[2] = 1 THEN 0 ELSE (i - 1) % ncol
        IN  z.vals[r * z.shape[2] + c + 1]]

\* lines 221-233
ToIzone(z, shape) ==
    IF Len(z.shape) = 2 /\ shape[1] = 1
    THEN (IF Broadcastable(z.shape, shape[2], shape[3])
          THEN [ok |-> TRUE, izone |-> Broadcast(z, shape[2], shape[3])]
          ELSE [ok |-> FALSE, err |-> Error(223, "ShapeMismatch", z.shape)])
    ELSE IF Len(z.shape) = 2 /\ shape[1] > 1
    THEN [ok |-> FALSE, err |-> Error(226, "ShapeMismatch", z.shape)]
    ELSE IF z.shape = shape
    THEN [ok |-> TRUE, izone |-> z.vals]
    ELSE [ok |-> FALSE, err |-> Error(230, "ShapeMismatch", z.shape)]

\* ZoneError with the shape checked before the negative values
ZoneErrorShapeFirst(z) ==
    IF ~ToIzone(z, cbc.shape).ok THEN ToIzone(z, cbc.shape).err
    ELSE IF NegativeZones(z) # <<>>
    THEN Error(218, "InvalidZoneId", NegativeZones(z))
    ELSE NoError

\* lines 215-233: the exception the zone array makes the call end with, if any
ZoneError(z) ==
    IF NegativeZones(z) # <<>>
    THEN Error(218, "InvalidZoneId", NegativeZones(z))
    ELSE IF ~ToIzone(z, cbc.shape).ok THEN ToIzone(z, cbc.shape).err
    ELSE NoError

Remove(names, n) == SelectSeq(names, LAMBDA x : x # n)

\* ich[chd != 0] = 1
Indicator(chd) == [i \in 1..Len(chd) |-> IF chd[i] # 0 THEN 1 ELSE 0]

(***************************************************************************)
(* The order of get_budget's sections; a section whose record is absent is *)
(* skipped                                                                 *)
(***************************************************************************)
Sections == <<"frf", "fff", "flf", "swich", "swifrf", "swifff", "swiflf">>

SectionRecord(p) ==
    CASE p = "frf" -> "FLOW RIGHT FACE"
      [] p = "fff" -> "FLOW FRONT FACE"
      [] p = "flf" -> "FLOW LOWER FACE"
      [] p = "swich" -> "SWIADDTOCH"
      [] p = "swifrf" -> "SWIADDTOFRF"
      [] p = "swifff" -> "SWIADDTOFFF"
      [] p = "swiflf" -> "SWIADDTOFLF"

SectionIndex(p) == IF p = "start" THEN 0 ELSE CHOOSE k \in 1..Len(Sections) : Sections[k] = p

\* the section that follows p, given the records not yet removed from reclist
NextPc(p, rl) ==
    LET later == {k \in 1..Len(Sections) :
                     k > SectionIndex(p) /\ InNames(SectionRecord(Sections[k]), rl)}
    IN  IF later # {} THEN Sections[CHOOSE k \in later : \A j \in later : k <= j]
        ELSE IF SelectSeq(rl, LAMBDA n : n \notin InternalFlowTerms) # <<>> THEN "ssst"
        ELSE "ret"

\* where control goes when the update loops of section p are over
AfterSection(p, rl) ==
    IF p = "ssst" THEN (IF rl = <<>> THEN "ret" ELSE "ssst") ELSE NextPc(p, rl)

Running == pc \notin {"idle", "done", "error"}

(***************************************************************************)
(* The budget files and the zone arrays the model is run on                *)
(***************************************************************************)
FluxVals == {-5, 0, 7}
ChdVals == {0, 2}
SsstVals == {-4, 0, 1, 3}
ListVals == {-4, 2, 3}
EdgeVals == {7}
NegZoneVals == {-2, -1}
ZoneVals == 0..MaxZone

Arrays(n, V) == [1..n -> V]

\* the cells of the grid whose face along the axis (1 layer, 2 row, 3 column) is
\* interior: the cells that have a neighbour at the next index of that axis
HasNext(shape, axis, i) ==
    CASE axis = 1 -> Lay(shape, i) < shape[1] - 1
      [] axis = 2 -> Row(shape, i) < shape[2] - 1
      [] axis = 3 -> Col(shape, i) < shape[3] - 1

\* face-flow arrays: any of V at an interior face; at the last index of the
\* axis, where the face has no cell beyond it, a value of EdgeVals
FaceArrays(shape, axis, V) ==
    {f \in [1..NCells(shape) -> V \cup EdgeVals] :
        \A i \in 1..NCells(shape) :
            IF HasNext(shape, axis, i) THEN f[i] \in V ELSE f[i] \in EdgeVals}
SeqsUpTo(n, S) == UNION {[1..k -> S] : k \in 0..n}

CbcFile(shape, names, imeth, data) ==
    [shape |-> shape, names |-> names, imeth |-> imeth, data |-> data]

\* one line of cells along one axis, with a constant-head record and the
\* face-flow record of that axis
LineCbcs(shape, face, axis) ==
    {CbcFile(shape, <<"CONSTANT HEAD", face>>,
             ("CONSTANT HEAD" :> 1) @@ (face :> 1),
             <<("CONSTANT HEAD" :> chd) @@ (face :> f)>>) :
        chd \in Arrays(NCells(shape), ChdVals), f \in FaceArrays(shape, axis, FluxVals)}

\* a grid with two axes of more than one cell: the face-flow records of both
PlaneCbcs(shape, face1, axis1, face2, axis2) ==
    {CbcFile(shape, <<face1, face2>>, (face1 :> 1) @@ (face2 :> 1),
             <<(face1 :> f1) @@ (face2 :> f2)>>) :
        f1 \in FaceArrays(shape, axis1, {-5, 7}), f2 \in FaceArrays(shape, axis2, {-5, 7})}

\* a face-flow record and a full-volume source term
RechargeCbcs(shape) ==
    {CbcFile(shape, <<"FLOW RIGHT FACE", "RECHARGE">>,
             ("FLOW RIGHT FACE" :> 1) @@ ("RECHARGE" :> 1),
             <<("FLOW RIGHT FACE" :> f) @@ ("RECHARGE" :> r)>>) :
        f \in FaceArrays(shape, 3, FluxVals), r \in Arrays(NCells(shape), SsstVals)}

\* a list record whose entries name the cells in nodes
ListCbcs(shape, nodes, qs, imeth) ==
    {CbcFile(shape, <<"WELLS">>, ("WELLS" :> imeth), <<("WELLS" :> entries)>>) :
        entries \in SeqsUpTo(MaxListLen, [node : nodes, q : qs])}

\* the SWI2 process group, with and without its constant-head record
SwiCbcs(shape, face, axis) ==
    {CbcFile(shape, <<"SWIADDTOCH", face>>,
             ("SWIADDTOCH" :> 1) @@ (face :> 1),
             <<("SWIADDTOCH" :> chd) @@ (face :> f)>>) :
        chd \in Arrays(NCells(shape), ChdVals), f \in FaceArrays(shape, axis, FluxVals)}
    \cup
    {CbcFile(shape, <<face>>, (face :> 1), <<(face :> f)>>) :
        f \in FaceArrays(shape, axis, FluxVals)}

\* a record with an imeth the code does not know
UnknownImethCbcs(shape) ==
    {CbcFile(shape, <<"FLOW RIGHT FACE", "DRAINS">>,
             ("FLOW RIGHT FACE" :> 1) @@ ("DRAINS" :> 6),
             <<("FLOW RIGHT FACE" :> f) @@ ("DRAINS" :> <<>>)>>) :
        f \in FaceArrays(shape, 3, FluxVals)}

\* a constant-head record and three source terms, one full 3-D (imeth 0), one
\* a plane with a layer indicator array (imeth 3), one a plane for layer 1
\* (imeth 4)
SourceTermCbcs(shape) ==
    LET p == shape[2] * shape[3]
    IN  {CbcFile(shape, <<"CONSTANT HEAD", "STORAGE", "RECHARGE", "ET", "WELLS">>,
                 ("CONSTANT HEAD" :> 1) @@ ("STORAGE" :> 0) @@ ("RECHARGE" :> 3) @@ ("ET" :> 4)
                     @@ ("WELLS" :> 2),
                 <<("CONSTANT HEAD" :> Zeros(shape)) @@ ("STORAGE" :> st)
                     @@ ("RECHARGE" :> [rlay |-> rl, rdata |-> rd]) @@ ("ET" :> et)
                     @@ ("WELLS" :> <<[node |-> 1, q |-> 3], [node |-> 1, q |-> -4],
                                      [node |-> NCells(shape), q |-> 3]>>)>>) :
            st \in {[i \in 1..NCells(shape) |-> IF i % 2 = 1 THEN 3 ELSE -4],
                    [i \in 1..NCells(shape) |-> IF i = 1 THEN -4 ELSE i - 2]},
            rl \in {[i \in 1..p |-> i], [i \in 1..p |-> shape[1]]},
            rd \in {[i \in 1..p |-> IF i = 1 THEN 3 ELSE -4], [i \in 1..p |-> i - 1]},
            et \in {[i \in 1..p |-> IF i = 1 THEN -4 ELSE 3], [i \in 1..p |-> IF i = 1 THEN 0 ELSE -4]}}

Cbcs ==
    LineCbcs(<<1, 1, 3>>, "FLOW RIGHT FACE", 3)
    \cup LineCbcs(<<1, 3, 1>>, "FLOW FRONT FACE", 2)
    \cup LineCbcs(<<3, 1, 1>>, "FLOW LOWER FACE", 1)
    \cup PlaneCbcs(<<2, 1, 2>>, "FLOW RIGHT FACE", 3, "FLOW LOWER FACE", 1)
    \cup RechargeCbcs(<<1, 1, 2>>)
    \cup ListCbcs(<<1, 1, 2>>, {1, 2}, {-4, 3}, 2)
    \cup ListCbcs(<<1, 1, 10>>, {5, 9}, ListVals, 5)
    \cup SwiCbcs(<<1, 1, 2>>, "SWIADDTOFRF", 3)
    \cup SwiCbcs(<<1, 2, 1>>, "SWIADDTOFFF", 2)
    \cup SwiCbcs(<<2, 1, 1>>, "SWIADDTOFLF", 1)
    \cup UnknownImethCbcs(<<1, 1, 2>>)
    \cup SourceTermCbcs(<<2, 1, 2>>)

\* the largest grid whose zone arrays are all enumerated; on a larger grid
\* only the uniform zone arrays are
MaxEnumCells == 4

ZoneArray(shape, vals) == [shape |-> shape, vals |-> vals]

Uniform(n, v) == [i \in 1..n |-> v]

ZInputs(shape) ==
    LET n == NCells(shape)
        p == shape[2] * shape[3]
        taller == <<shape[1] + 1, shape[2], shape[3]>>
    IN  \* 3-D arrays of the model's shape
        (IF n <= MaxEnumCells
         THEN {ZoneArray(shape, v) : v \in Arrays(n, ZoneVals)}
              \cup {ZoneArray(<<shape[2], shape[3]>>, v) : v \in Arrays(p, ZoneVals)}
              \cup {ZoneArray(shape, v) : v \in Arrays(n, NegZoneVals \cup {1}) \ {Uniform(n, 1)}}
         ELSE {ZoneArray(shape, Uniform(n, v)) : v \in ZoneVals \cup NegZoneVals})
        \* 2-D arrays that broadcast, and arrays of another shape
        \cup {ZoneArray(<<1, 1>>, <<v>>) : v \in ZoneVals}
        \cup {ZoneArray(<<shape[2] + 1, shape[3]>>, Uniform(p + shape[3], v)) : v \in {-1, 1}}
        \cup {ZoneArray(taller, Uniform(NCells(taller), v)) : v \in {-1, 1}}

KwInputs ==
    {[key |-> k, val |-> t] : k \in {"kstpkper", "totim"}, t \in 1..(Len(cbc.data) + 1)}
    \cup {[key |-> "none", val |-> 0]}

(***************************************************************************)
(* Actions                                                                 *)
(***************************************************************************)
NoHistory(mode) ==
    [mode |-> mode, izone |-> NoArray, tsel |-> 0, records |-> NoRecords, other |-> FALSE]

ClearLocals ==
    /\ zarg' = NoArg
    /\ izone' = NoArray /\ lstzon' = <<>> /\ ich' = NoArray /\ swiich' = Unbound
    /\ reclist' = <<>> /\ tsel' = 0 /\ queue' = <<>> /\ nzgt' = NoTuples
    /\ budin' = NoArray /\ budout' = NoArray

\* a call that raises: the exception propagates, the locals are gone
Raise(e) ==
    /\ pc' = "error"
    /\ err' = e
    /\ ClearLocals
    /\ UNCHANGED <<cbc, zonbudrecords, budget, pcterr, first>>

\* get_budget, lines 201-212: the call is entered and its time selector checked
Call(z, kw) ==
    /\ IF TimeError(kw) # NoError
       THEN /\ pc' = "error"
            /\ err' = TimeError(kw)
            /\ ClearLocals
       ELSE /\ pc' = "check"
            /\ err' = NoError
            /\ zarg' = z
            /\ tsel' = kw.val
            /\ izone' = NoArray /\ lstzon' = <<>> /\ ich' = NoArray /\ swiich' = Unbound
            /\ reclist' = <<>> /\ queue' = <<>> /\ nzgt' = NoTuples
            /\ budin' = NoArray /\ budout' = NoArray
    /\ budget' = NoRecords /\ pcterr' = NoResult
    /\ UNCHANGED <<cbc, zonbudrecords, first>>

\* get_budget, lines 213-252: the zone array is checked and made 3-D, then
\* _initialize_records and the constant-head indicator
CheckZones ==
    /\ pc = "check"
    /\ IF ZoneError(zarg) # NoError
       THEN Raise(ZoneError(zarg))
       ELSE LET iz == ToIzone(zarg, cbc.shape).izone
                lst == SortSet(Range(iz))
                hasch == InNames("CONSTANT HEAD", record_names)
                rl == IF hasch THEN Remove(record_names, "CONSTANT HEAD") ELSE record_names
            IN  /\ zarg' = NoArg
                /\ izone' = iz
                /\ lstzon' = lst
                /\ zonbudrecords' = InitializeRecords(lst)
                /\ ich' = IF hasch THEN Indicator(cbc.data[tsel]["CONSTANT HEAD"])
                          ELSE Zeros(cbc.shape)
                /\ swiich' = Unbound
                /\ reclist' = rl
                /\ pc' = NextPc("start", rl)
                /\ queue' = <<>> /\ nzgt' = NoTuples
                /\ budin' = NoArray /\ budout' = NoArray
                /\ UNCHANGED <<cbc, tsel, err, budget, pcterr, first>>

\* the body of an accumulator, given its tuples and its constant-head writes
Accumulate(recname, tuples, chdwrites) ==
    LET writes == chdwrites \o NzgtWrites(tuples)
        rl == Remove(reclist, recname)
    IN  /\ nzgt' = [recname |-> recname, tuples |-> tuples, chd |-> chdwrites]
        /\ queue' = writes
        /\ reclist' = rl
        /\ pc' = IF writes = <<>> THEN NextPc(pc, rl) ELSE pc
        /\ UNCHANGED <<cbc, zonbudrecords, zarg, izone, lstzon, ich, swiich, tsel,
                       budin, budout, err, budget, pcterr, first>>

\* the indicator array the call passes: ich, or swiich for the SWI2 records
Mask == IF pc \in {"frf", "fff", "flf"} THEN ich ELSE swiich

AccumulateFlowFrf ==
    /\ pc \in {"frf", "swifrf"} /\ queue = <<>>
    /\ IF Mask = Unbound
       THEN Raise(Error(269, "UnboundLocalError", <<"swiich">>))
       ELSE LET bud == cbc.data[tsel][SectionRecord(pc)]
            IN  Accumulate(SectionRecord(pc),
                           FrfL2R(cbc.shape, bud, izone, Mask)
                               \o FrfR2L(cbc.shape, bud, izone, Mask),
                           FrfChdL2R(cbc.shape, bud, izone, Mask)
                               \o FrfChdR2L(cbc.shape, bud, izone, Mask))

AccumulateFlowFff ==
    /\ pc \in {"fff", "swifff"} /\ queue = <<>>
    /\ IF Mask = Unbound
       THEN Raise(Error(272, "UnboundLocalError", <<"swiich">>))
       ELSE LET bud == cbc.data[tsel][SectionRecord(pc)]
            IN  Accumulate(SectionRecord(pc),
                           FffU2D(cbc.shape, bud, izone, Mask)
                               \o FffD2U(cbc.shape, bud, izone, Mask),
                           FffChdU2D(cbc.shape, bud, izone, Mask)
                               \o FffChdD2U(cbc.shape, bud, izone, Mask))

AccumulateFlowFlf ==
    /\ pc \in {"flf", "swiflf"} /\ queue = <<>>
    /\ IF Mask = Unbound
       THEN Raise(Error(275, "UnboundLocalError", <<"swiich">>))
       ELSE LET bud == cbc.data[tsel][SectionRecord(pc)]
            IN  Accumulate(SectionRecord(pc),
                           FlfT2B(cbc.shape, bud, izone, Mask)
                               \o FlfB2T(cbc.shape, bud, izone, Mask),
                           FlfChdT2B(cbc.shape, bud, izone, Mask)
                               \o FlfChdB2T(cbc.shape, bud, izone, Mask))

\* lines 262-266
SwiConstantHead ==
    /\ pc = "swich"
    /\ swiich' = Indicator(cbc.data[tsel]["SWIADDTOCH"])
    /\ reclist' = Remove(reclist, "SWIADDTOCH")
    /\ pc' = NextPc(pc, reclist')
    /\ UNCHANGED <<cbc, zonbudrecords, zarg, izone, lstzon, ich, tsel, queue, nzgt,
                   budin, budout, err, budget, pcterr, first>>

\* one iteration of the loop over reclist, lines 280-325, up to the update loops
AccumulateFlowSsst ==
    /\ pc = "ssst" /\ queue = <<>>
    /\ LET recname == Head(reclist)
           imeth == cbc.imeth[recname]
           data == cbc.data[tsel][recname]
       IN  IF imeth \notin KnownImeth
           THEN Raise(Error(323, "UnrecognizedEncoding", <<recname, imeth>>))
           ELSE LET n == Normalize(imeth, data, cbc.shape)
                IN  /\ budin' = n.budin
                    /\ budout' = n.budout
                    /\ queue' = SsstWrites(recname, n.budin, n.budout, izone, lstzon)
                    /\ reclist' = Tail(reclist)
                    /\ UNCHANGED <<cbc, zonbudrecords, pc, zarg, izone, lstzon, ich, swiich,
                                   tsel, nzgt, err, budget, pcterr, first>>

\* one _update_record call of the running update loop
UpdateRecord ==
    /\ Running /\ queue # <<>>
    /\ zonbudrecords' = update_record(zonbudrecords, Head(queue).flow_dir,
                                      Head(queue).record, Head(queue).zone, Head(queue).flux)
    /\ queue' = Tail(queue)
    /\ pc' = IF Tail(queue) = <<>> THEN AfterSection(pc, reclist) ELSE pc
    /\ UNCHANGED <<cbc, zarg, izone, lstzon, ich, swiich, reclist, tsel, nzgt,
                   budin, budout, err, budget, pcterr, first>>

\* line 327: return Budget(self.zonbudrecords, **kwargs)
Return ==
    /\ pc = "ret"
    /\ pc' = "done"
    /\ budget' = zonbudrecords
    /\ first' = IF first.mode = "unset"
                THEN [mode |-> "set", izone |-> izone, tsel |-> tsel,
                      records |-> zonbudrecords, other |-> FALSE]
                ELSE IF first.mode = "set" /\ (first.izone # izone \/ first.tsel # tsel)
                THEN [first EXCEPT !.other = TRUE]
                ELSE first
    /\ UNCHANGED <<cbc, zonbudrecords, zarg, izone, lstzon, ich, swiich, reclist, tsel,
                   queue, nzgt, budin, budout, err, pcterr>>

\* Budget.get_percent_error on the returned Budget
GetPercentError ==
    /\ pc = "done" /\ ~pcterr.set
    /\ pcterr' = [set |-> TRUE, val |-> get_percent_error(budget)]
    /\ UNCHANGED <<cbc, zonbudrecords, pc, zarg, izone, lstzon, ich, swiich, reclist, tsel,
                   queue, nzgt, budin, budout, err, budget, first>>

\* the first call on a new engine
GetBudget(z, kw) ==
    /\ pc = "idle"
    /\ Call(z, kw)

\* a further call on an engine that has returned or raised
GetBudgetAgain(z, kw) ==
    /\ pc \in {"done", "error"}
    /\ Call(z, kw)

InitEngine ==
    /\ zonbudrecords = NoRecords
    /\ pc = "idle"
    /\ zarg = NoArg
    /\ izone = NoArray /\ lstzon = <<>> /\ ich = NoArray /\ swiich = Unbound
    /\ reclist = <<>> /\ tsel = 0 /\ queue = <<>> /\ nzgt = NoTuples
    /\ budin = NoArray /\ budout = NoArray
    /\ err = NoError /\ budget = NoRecords /\ pcterr = NoResult

Init ==
    /\ cbc \in Cbcs
    /\ first = NoHistory("off")
    /\ InitEngine

Next ==
    \/ \E z \in ZInputs(cbc.shape), kw \in KwInputs : GetBudget(z, kw)
    \/ CheckZones
    \/ AccumulateFlowFrf
    \/ AccumulateFlowFff
    \/ AccumulateFlowFlf
    \/ SwiConstantHead
    \/ AccumulateFlowSsst
    \/ UpdateRecord
    \/ Return
    \/ GetPercentError

Spec == Init /\ [][Next]_vars

(***************************************************************************)
(* Reuse of one engine for several calls, over budget files with two time  *)
(* steps; the first completed call is remembered                           *)
(***************************************************************************)
ReuseSteps ==
    {("CONSTANT HEAD" :> c) @@ ("FLOW RIGHT FACE" :> f) @@ ("RECHARGE" :> r) :
        c \in {<<0, 2>>}, f \in {<<-5, 7>>, <<7, 7>>, <<0, 7>>}, r \in {<<1, 3>>}}

ReuseCbcs ==
    {CbcFile(<<1, 1, 2>>, <<"CONSTANT HEAD", "FLOW RIGHT FACE", "RECHARGE">>,
             ("CONSTANT HEAD" :> 1) @@ ("FLOW RIGHT FACE" :> 1) @@ ("RECHARGE" :> 1),
             <<d1, d2>>) :
        d1 \in ReuseSteps, d2 \in ReuseSteps}

\* the zone arrays and selectors of the further calls
ZAgain(shape) ==
    {ZoneArray(shape, v) : v \in Arrays(NCells(shape), ZoneVals)}
    \cup {ZoneArray(shape, Uniform(NCells(shape), -1))}

KwAgain == {[key |-> "kstpkper", val |-> t] : t \in 1..(Len(cbc.data) + 1)}

InitReuse ==
    /\ cbc \in ReuseCbcs
    /\ first = NoHistory("unset")
    /\ InitEngine

NextReuse ==
    \/ \E z \in ZAgain(cbc.shape), kw \in KwAgain : GetBudget(z, kw)
    \/ \E z \in ZAgain(cbc.shape), kw \in KwAgain : GetBudgetAgain(z, kw)
    \/ CheckZones
    \/ AccumulateFlowFrf
    \/ AccumulateFlowSsst
    \/ UpdateRecord
    \/ Return

SpecReuse == InitReuse /\ [][NextReuse]_vars

(***************************************************************************)
(* Reading the record array                                                *)
(***************************************************************************)
RowMatches(recs, k, d, lab) ==
    recs.rows[k].flow_dir = d /\ recs.rows[k].record = lab

HasCell(recs, d, lab, z) ==
    \E k \in 1..Len(recs.rows) : RowMatches(recs, k, d, lab) /\ z \in DOMAIN recs.rows[k].vals

Cell(recs, d, lab, z) ==
    recs.rows[CHOOSE k \in 1..Len(recs.rows) : RowMatches(recs, k, d, lab)].vals[z]

\* the zones of the zone array of the call, and those that have a column
Zones == Range(lstzon)
ActiveZones == Zones \ {0}

\* the axis a face-flow record runs along (1 layer, 2 row, 3 column), the
\* distance between a cell and its neighbour at the next index of that axis,
\* and the indicator array the record was accumulated with
AxisOf(recname) ==
    CASE recname \in {"FLOW RIGHT FACE", "SWIADDTOFRF"} -> 3
      [] recname \in {"FLOW FRONT FACE", "SWIADDTOFFF"} -> 2
      [] recname \in {"FLOW LOWER FACE", "SWIADDTOFLF"} -> 1

Stride(shape, axis) ==
    CASE axis = 3 -> 1
      [] axis = 2 -> shape[3]
      [] axis = 1 -> shape[2] * shape[3]

MaskOf(recname) ==
    IF recname \in {"FLOW RIGHT FACE", "FLOW FRONT FACE", "FLOW LOWER FACE"}
    THEN ich ELSE swiich

\* the face between cell i and the next cell of the axis, for the record of nzgt
FaceBud == cbc.data[tsel][nzgt.recname]
FaceNext(i) == i + Stride(cbc.shape, AxisOf(nzgt.recname))
FaceInterior(i) == HasNext(cbc.shape, AxisOf(nzgt.recname), i)
FaceBothCh(i) == MaskOf(nzgt.recname)[i] = 1 /\ MaskOf(nzgt.recname)[FaceNext(i)] = 1
TuplesAt(i) == {k \in 1..Len(nzgt.tuples) : nzgt.tuples[k].face = i}

\* no dual write of the nzgt loop is half made
AtPairBoundary == queue = <<>> \/ Head(queue).kind # "to"

(***************************************************************************)
(* Claims                                                                  *)
(***************************************************************************)

\* C1: for every pair of zones (A, B) that have a column, that is every pair
\* of nonzero zones of the zone array, the cell (in, "FROM ZONE A")[B] and the
\* cell (out, "TO ZONE B")[A] exist and are equal, after every dual write of
\* the accumulators of every axis and process group and at the end of
\* get_budget.
C1_PairwiseSymmetry ==
    (zonbudrecords # NoRecords /\ pc # "error" /\ AtPairBoundary) =>
        \A A \in ActiveZones, B \in ActiveZones :
            /\ HasCell(zonbudrecords, "in", FromZone(A), B)
            /\ HasCell(zonbudrecords, "out", ToZone(B), A)
            /\ Cell(zonbudrecords, "in", FromZone(A), B)
                   = Cell(zonbudrecords, "out", ToZone(B), A)

\* C1 witness: a finished budget on the two-axis grid in which one zone pair
\* has received flow across faces of both axes
C1_Witness ==
    /\ pc = "done"
    /\ cbc.shape = <<2, 1, 2>>
    /\ \E A \in ActiveZones, B \in ActiveZones :
          /\ A # B
          /\ Cell(budget, "in", FromZone(A), B) = 12
          /\ Cell(budget, "out", ToZone(B), A) = 12

\* the faces of the axis of nzgt.recname between cells of different zones that are
\* not both constant-head each have exactly one tuple, of the face's magnitude
ExactlyOnce(axis) ==
    (nzgt.recname # "" /\ AxisOf(nzgt.recname) = axis) =>
        \A i \in 1..NCells(cbc.shape) :
            (FaceInterior(i) /\ izone[i] # izone[FaceNext(i)] /\ ~FaceBothCh(i)) =>
                /\ Cardinality(TuplesAt(i)) = 1
                /\ \A k \in TuplesAt(i) : nzgt.tuples[k].flux = Abs(FaceBud[i])

\* C2: on each axis (column, row, layer), every interior face between cells
\* of different zones that are not both constant-head contributes its
\* magnitude to the pairwise transfers exactly once, whichever cell has the
\* larger zone id.
C2_NoDoubleCounting == ExactlyOnce(3) /\ ExactlyOnce(2) /\ ExactlyOnce(1)

\* the two-zone scenario: grid 1x1x2, zones [1, 2], face flux -5, RECHARGE [1, 3]
TwoZoneScenario ==
    /\ pc = "done"
    /\ cbc.shape = <<1, 1, 2>>
    /\ cbc.names = <<"FLOW RIGHT FACE", "RECHARGE">>
    /\ izone = <<1, 2>>
    /\ cbc.data[tsel]["FLOW RIGHT FACE"][1] = -5
    /\ cbc.data[tsel]["RECHARGE"] = <<1, 3>>

EdgeScenario ==
    /\ pc = "done"
    /\ cbc.shape = <<1, 1, 3>>
    /\ izone = <<1, 1, 2>>
    /\ ich = <<0, 0, 0>>
    /\ cbc.data[tsel]["FLOW RIGHT FACE"][2] = 7

CellSum(recs) ==
    SumSeq([k \in 1..Len(recs.rows) |->
               SumSeq([j \in 1..Len(recs.fields) |-> recs.rows[k].vals[recs.fields[j]]])])

NoNullColumn ==
    (zonbudrecords # NoRecords /\ izone # NoArray) =>
        /\ Range(zonbudrecords.fields) = Range(izone) \ {0}
        /\ \A j \in 1..Len(zonbudrecords.fields), k \in 1..Len(zonbudrecords.fields) :
               j < k => zonbudrecords.fields[j] < zonbudrecords.fields[k]
        /\ \A k \in 1..Len(zonbudrecords.rows) :
               DOMAIN zonbudrecords.rows[k].vals = Range(zonbudrecords.fields)

\* an _update_record call whose column is 'ZONE 0' changes no cell and the
\* call goes on
NullWriteIsNoOp ==
    (Running /\ queue # <<>> /\ Head(queue).zone = 0 /\ queue' = Tail(queue)) =>
        (zonbudrecords' = zonbudrecords /\ pc' # "error" /\ err' = err)

\* C5: the record array get_budget creates has one column per distinct
\* nonzero zone of the zone array, in ascending order, and never a column
\* for zone 0; every _update_record call that targets zone 0 raises nothing
\* and leaves every cell unchanged.
C5_NullZoneExclusion == []NoNullColumn /\ [][NullWriteIsNoOp]_vars

\* C5 witness: a finished budget for a zone array with null cells where a
\* face flow into zone 0 was written and no column for zone 0 exists
C5_Witness ==
    /\ pc = "done"
    /\ 0 \in Range(izone) /\ ActiveZones # {}
    /\ 0 \notin Range(budget.fields)
    /\ \E k \in 1..Len(nzgt.tuples) : nzgt.tuples[k].to_zone = 0 /\ nzgt.tuples[k].flux > 0

AllZero(recs) ==
    /\ recs.rows # <<>>
    /\ \A k \in 1..Len(recs.rows) :
          \A z \in DOMAIN recs.rows[k].vals : recs.rows[k].vals[z] = 0

SameAsFirst == first.mode = "set" /\ first.izone = izone /\ first.tsel = tsel

\* a call with the zone array and time step of the engine's first call
\* returns the records of that first call
ReturnsFirstRecords == (pc = "done" /\ SameAsFirst) => budget = first.records

\* a call that passes validation starts from a record array of zeros
StartsFromZero ==
    (pc = "check" /\ pc' \notin {"check", "error"}) => AllZero(zonbudrecords')

\* C6: on one engine, a get_budget call with the zone array, time step and
\* budget file of an earlier call returns records equal cell for cell to that
\* call's, whatever calls were made before or between them; each call
\* starts from a freshly initialised record array whose cells are all 0.
C6_Idempotence == []ReturnsFirstRecords /\ [][StartsFromZero]_vars

\* C6 witness: the input of the first call computed again, with nonzero
\* flows, after a call with another zone array or time step
C6_Witness ==
    /\ pc = "done" /\ SameAsFirst /\ first.other
    /\ budget = first.records
    /\ CellSum(budget) > 0

\* the sum of a zone's column over the rows of one direction
DirectionTotal(recs, d, z) ==
    SumSeq([k \in 1..Len(recs.rows) |->
               IF recs.rows[k].flow_dir = d THEN recs.rows[k].vals[z] ELSE 0])

\* C7: for each zone get_percent_error returns
\* 100 * (inflow - outflow) / ((inflow + outflow) / 2), inflow and outflow
\* being the sums of the zone's column over the 'in' and the 'out' rows, and
\* exactly 0 for a zone whose inflow and outflow are both zero.
C7_PercentError ==
    pcterr.set =>
        \A z \in Range(budget.fields) :
            LET inflow == DirectionTotal(budget, "in", z)
                outflow == DirectionTotal(budget, "out", z)
                r == pcterr.val[z]
            IN  IF inflow + outflow = 0
                THEN r = Num(0, 1)
                ELSE /\ r.kind = "num" /\ r.d > 0
                     /\ r.n * (inflow + outflow) = r.d * 200 * (inflow - outflow)

\* C7 witness: a percent error computed for a budget with a zone without any
\* flow and a zone whose inflow and outflow differ
C7_Witness ==
    /\ pcterr.set
    /\ \E z \in Range(budget.fields) :
          DirectionTotal(budget, "in", z) + DirectionTotal(budget, "out", z) = 0
    /\ \E z \in Range(budget.fields) :
          /\ DirectionTotal(budget, "out", z) > 0
          /\ DirectionTotal(budget, "in", z) > DirectionTotal(budget, "out", z)

TransferRow(recs, k) == recs.rows[k].record[1] \in {"FROM ZONE", "TO ZONE"}

UniformZone == izone # NoArray /\ \E v \in 1..MaxZone : \A i \in 1..Len(izone) : izone[i] = v

\* C8: when every cell of the zone array has the same nonzero zone, every
\* "FROM ZONE" and "TO ZONE" row stays at zero whatever the face flows and the
\* constant-head cells; for any zone array, no tuple comes from a face between
\* two cells of the same zone and no zone transfers to itself.
C8_SingleZoneCollapse ==
    /\ (zonbudrecords # NoRecords /\ UniformZone) =>
          \A k \in 1..Len(zonbudrecords.rows) :
              TransferRow(zonbudrecords, k) =>
                  \A z \in DOMAIN zonbudrecords.rows[k].vals : zonbudrecords.rows[k].vals[z] = 0
    /\ nzgt.recname # "" =>
          \A k \in 1..Len(nzgt.tuples) :
              /\ izone[nzgt.tuples[k].face] # izone[FaceNext(nzgt.tuples[k].face)]
              /\ nzgt.tuples[k].from_zone # nzgt.tuples[k].to_zone
    /\ (zonbudrecords # NoRecords /\ izone # NoArray) =>
          \A A \in ActiveZones :
              /\ Cell(zonbudrecords, "in", FromZone(A), A) = 0
              /\ Cell(zonbudrecords, "out", ToZone(A), A) = 0

\* C8 witness: a finished budget on a line of three cells of one zone, with
\* nonzero flows at both interior faces and a constant-head cell
C8_Witness ==
    /\ pc = "done"
    /\ cbc.shape = <<1, 1, 3>>
    /\ UniformZone
    /\ ich[1] = 1 /\ ich[2] = 0
    /\ cbc.data[tsel]["FLOW RIGHT FACE"][1] = -5
    /\ cbc.data[tsel]["FLOW RIGHT FACE"][2] = 7
    /\ CellSum(budget) > 0

\* the sum of the q of the entries of a list that name node i and satisfy Sign
PositiveAt(entries, i) ==
    SumSeq([k \in 1..Len(entries) |->
               IF entries[k].node = i /\ entries[k].q > 0 THEN entries[k].q ELSE 0])
NegativeAt(entries, i) ==
    SumSeq([k \in 1..Len(entries) |->
               IF entries[k].node = i /\ entries[k].q < 0 THEN entries[k].q ELSE 0])

ListScattered == budin # NoArray /\ cbc.names = <<"WELLS">>

RoundTripEntries == <<[node |-> 5, q |-> 3], [node |-> 5, q |-> 2], [node |-> 9, q |-> -4]>>

\* C9: for a list record (imeth 2 or 5), the cell with 1-based linear index
\* node holds in budin the sum of the positive q of the entries naming that
\* node and in budout the sum of their negative q, the two never netted, and
\* every other cell is 0; the entries [(5, 3), (5, 2), (9, -4)] on a 1x1x10
\* grid give budin[0, 0, 4] = 5 and budout[0, 0, 8] = -4.
C9_SparseListNormalisation ==
    ListScattered =>
        LET entries == cbc.data[tsel]["WELLS"]
        IN  /\ Len(budin) = NCells(cbc.shape) /\ Len(budout) = NCells(cbc.shape)
            /\ \A i \in 1..NCells(cbc.shape) :
                  /\ budin[i] = PositiveAt(entries, i)
                  /\ budout[i] = NegativeAt(entries, i)
            /\ entries = RoundTripEntries =>
                  /\ budin[5] = 5 /\ budout[9] = -4
                  /\ \A i \in 1..10 : (i # 5 => budin[i] = 0) /\ (i # 9 => budout[i] = 0)

\* C9 witness: the list [(5, 3), (5, 2), (9, -4)] scattered on the 1x1x10 grid
C9_Witness ==
    /\ ListScattered
    /\ cbc.shape = <<1, 1, 10>>
    /\ cbc.data[tsel]["WELLS"] = RoundTripEntries
    /\ budin[5] = 5

\* the shape of zone array z suits the model: 2-D on a one-layer model, each
\* dimension 1 or the model's, or the model's shape
ShapeCompatible(z) ==
    \/ /\ Len(z.shape) = 2 /\ cbc.shape[1] = 1
       /\ z.shape[1] \in {1, cbc.shape[2]} /\ z.shape[2] \in {1, cbc.shape[3]}
    \/ z.shape = cbc.shape

HasNegative(z) == \E i \in 1..Len(z.vals) : z.vals[i] < 0

FailsWith(kind) == pc' = "error" /\ err'.kind = kind /\ zonbudrecords' = zonbudrecords

ReportsNegatives(z) ==
    /\ Range(err'.info) = {z.vals[i] : i \in {j \in 1..Len(z.vals) : z.vals[j] < 0}}
    /\ \A j \in 1..Len(err'.info), k \in 1..Len(err'.info) : j < k => err'.info[j] < err'.info[k]

\* C10 (as stated): once the time selector is found valid, get_budget
\* accepts a zone array only if it has no negative value and a compatible
\* shape; every array of an incompatible
\* shape fails with a shape-mismatch error and every array with a negative
\* value fails with an invalid-zone-id error reporting all offending values;
\* the failures happen before the record array is initialised.
C10_ValidationAsStated ==
    [][(pc = "check" /\ pc' # "check") =>
          /\ pc' # "error" => (~HasNegative(zarg) /\ ShapeCompatible(zarg))
          /\ ~ShapeCompatible(zarg) => FailsWith("ShapeMismatch")
          /\ HasNegative(zarg) => (FailsWith("InvalidZoneId") /\ ReportsNegatives(zarg))]_vars

\* C10 (amended): once the time selector is found valid, a zone array with a
\* negative value fails with an invalid-zone-id error reporting all offending
\* values, whatever its shape; an array without negative values whose shape
\* is incompatible (2-D on a multi-layer model, 2-D not broadcastable to
\* rows x cols, or 3-D of another shape) fails with a shape-mismatch error;
\* every other array is accepted and, when 2-D, becomes the single layer of
\* the volume; the failures leave the record array as it was.
C10_ZoneGridValidation ==
    [][(pc = "check" /\ pc' # "check") =>
          IF HasNegative(zarg)
          THEN FailsWith("InvalidZoneId") /\ ReportsNegatives(zarg)
          ELSE IF ~ShapeCompatible(zarg)
          THEN FailsWith("ShapeMismatch")
          ELSE /\ pc' # "error"
               /\ Len(izone') = NCells(cbc.shape)
               /\ Len(zarg.vals) = NCells(cbc.shape) => izone' = zarg.vals
               /\ AllZero(zonbudrecords')]_vars

\* C10 witness: a call that failed on two negative zone values before any
\* record array was built
C10_Witness ==
    /\ pc = "error"
    /\ err.kind = "InvalidZoneId" /\ err.line = 218
    /\ err.info = <<-2, -1>>
    /\ zonbudrecords = NoRecords

\* C11: whenever get_budget has raised (time selector, zone array shape,
\* negative zone, unrecognized imeth), no flux has been accumulated into the
\* record array of the engine: it is absent or all of its cells are 0.
C11_NoErrorMidAccumulation ==
    pc = "error" => (zonbudrecords = NoRecords \/ CellSum(zonbudrecords) = 0)

ValidationKinds ==
    {"MissingTimeSelector", "NoTimeSelectorProvided", "InvalidZoneId", "ShapeMismatch"}

\* C12: when the budget file holds internal-flow records only, whichever of
\* them are present, a get_budget call whose arguments pass validation
\* returns a Budget: the only errors such a call can end with are those of the
\* validation of its arguments.
C12_AbsenceIsNotAnError ==
    (pc = "error" /\ ssst_record_names = <<>>) => err.kind \in ValidationKinds

\* the elements of a set of integers in ascending order
Ascending(S) ==
    CHOOSE q \in [1..Cardinality(S) -> S] :
        \A j \in 1..Cardinality(S), k \in 1..Cardinality(S) : j < k => q[j] < q[k]

\* the labels of the rows of one direction when the transfer rows are those of
\* the zones zs: CONSTANT HEAD if the file has it, the other terms that are
\* not internal-flow terms in the file's order, one transfer row per zone
LabelsOf(d, zs) ==
    LET terms == SelectSeq(cbc.names, LAMBDA n : n \notin InternalFlowTerms)
        zq == Ascending(zs)
    IN  (IF \E k \in 1..Len(cbc.names) : cbc.names[k] = "CONSTANT HEAD"
         THEN <<(<<d, <<"CONSTANT HEAD">> >>)>> ELSE <<>>)
        \o [k \in 1..Len(terms) |-> <<d, <<terms[k]>> >>]
        \o [k \in 1..Len(zq) |->
               <<d, <<(IF d = "in" THEN "FROM ZONE" ELSE "TO ZONE"), zq[k]>> >>]

RowKeys(recs) == [k \in 1..Len(recs.rows) |-> <<recs.rows[k].flow_dir, recs.rows[k].record>>]

\* the rows of the record array are those of LabelsOf, 'in' then 'out', each once
RowsAre(zs) ==
    (zonbudrecords # NoRecords /\ izone # NoArray) =>
        /\ RowKeys(zonbudrecords) = LabelsOf("in", zs) \o LabelsOf("out", zs)
        /\ \A j \in 1..Len(zonbudrecords.rows), k \in 1..Len(zonbudrecords.rows) :
               j # k => RowKeys(zonbudrecords)[j] # RowKeys(zonbudrecords)[k]

\* C13 (as stated): from initialisation on and through accumulation, the
\* rows are, for 'in' and then for 'out', CONSTANT HEAD if the file has it,
\* the other non-internal-flow terms in the file's order, then one transfer
\* row per nonzero zone in ascending order and none for zone 0; each
\* (direction, label) occurs once and every cell starts at 0.
C13_RowsAsStated == []RowsAre(Range(izone) \ {0}) /\ [][StartsFromZero]_vars

\* C13 (amended): as stated, except that the transfer rows are one per
\* distinct zone of the zone array in ascending order, zone 0 included when
\* the zone array has null cells ("FROM ZONE 0" and "TO ZONE 0").
C13_LedgerRows == []RowsAre(Range(izone)) /\ [][StartsFromZero]_vars

\* C13 witness: a finished budget for a file with CONSTANT HEAD and three
\* source terms and a zone array with null cells and two other zones
C13_Witness ==
    /\ pc = "done"
    /\ cbc.names = <<"CONSTANT HEAD", "STORAGE", "RECHARGE", "ET", "WELLS">>
    /\ Range(izone) = {0, 1, 2}
    /\ Len(budget.rows) = 16
    /\ CellSum(budget) > 0

\* the constant-head writes that come from the face between cell i and the
\* next cell of the axis
ChdAt(i) == {k \in 1..Len(nzgt.chd) : nzgt.chd[k].face = i}

\* exactly one, or none, of the two cells of the face is constant-head
FaceOneCh(i) == MaskOf(nzgt.recname)[i] + MaskOf(nzgt.recname)[FaceNext(i)] = 1
FaceNoCh(i) == MaskOf(nzgt.recname)[i] + MaskOf(nzgt.recname)[FaceNext(i)] = 0

\* the face is one the accumulator of its axis makes a tuple of: between two
\* zones on the column and row axes, and on the layer axis between an upper
\* cell and a lower cell of a higher zone
FaceCounted(i) ==
    IF AxisOf(nzgt.recname) = 1
    THEN izone[i] < izone[FaceNext(i)]
    ELSE izone[i] # izone[FaceNext(i)]

ChdCell(w) == IF w.pass = "fwd" THEN FaceNext(w.face) ELSE w.face
ChdNeighbour(w) == IF w.pass = "fwd" THEN w.face ELSE FaceNext(w.face)
ChdLeaves(w) == IF w.pass = "fwd" THEN FaceBud[w.face] < 0 ELSE FaceBud[w.face] > 0

\* C15: two constant-head writes, one of the forward pass (neighbour on the
\* lower-index side) and one of the backward pass (neighbour on the
\* higher-index side), of faces with exactly one constant-head cell that are
\* mirror images of each other (same zone of the constant-head cell, same
\* zone of the neighbour, flux in the same sense between the two) have the
\* same direction and go to the same zone column.
C15_MirrorConsistency ==
    nzgt.recname # "" =>
        \A j \in 1..Len(nzgt.chd), k \in 1..Len(nzgt.chd) :
            LET w == nzgt.chd[j]
                v == nzgt.chd[k]
            IN  ( /\ w.pass = "fwd" /\ v.pass = "bwd"
                  /\ w.flux > 0 /\ v.flux > 0
                  /\ FaceOneCh(w.face) /\ FaceOneCh(v.face)
                  /\ izone[ChdCell(w)] = izone[ChdCell(v)]
                  /\ izone[ChdNeighbour(w)] = izone[ChdNeighbour(v)]
                  /\ ChdLeaves(w) = ChdLeaves(v) )
                => (w.flow_dir = v.flow_dir /\ w.zone = v.zone)

\* the tuples and the constant-head writes of a face between two
\* constant-head cells carry a flux of 0, and when every cell is
\* constant-head nothing reaches the record array
ChToChIsZero ==
    /\ nzgt.recname # "" =>
          \A i \in 1..NCells(cbc.shape) :
              (FaceInterior(i) /\ FaceBothCh(i)) =>
                  /\ \A k \in TuplesAt(i) : nzgt.tuples[k].flux = 0
                  /\ \A k \in ChdAt(i) : nzgt.chd[k].flux = 0
    /\ (zonbudrecords # NoRecords /\ ich # NoArray /\ swiich = Unbound
           /\ \A i \in 1..Len(ich) : ich[i] = 1) => CellSum(zonbudrecords) = 0

\* C16: on every axis and in both passes, a face whose two cells are both
\* constant-head in the indicator array of the process group adds 0 to every
\* row, pairwise-transfer rows and CONSTANT HEAD rows alike, and the face
\* flows of the budget file are not modified by the zeroing.
C16_ChToChExcluded == []ChToChIsZero /\ [][cbc' = cbc]_vars

\* C16 witness: a finished budget on a line of constant-head cells of
\* different zones with nonzero face flows, whose tuples all carry 0
C16_Witness ==
    /\ pc = "done"
    /\ cbc.shape = <<1, 1, 3>>
    /\ ich = <<1, 1, 1>> /\ izone = <<1, 2, 1>>
    /\ cbc.data[tsel]["FLOW RIGHT FACE"] = <<-5, 7, 7>>
    /\ Len(nzgt.tuples) = 2 /\ Len(nzgt.chd) = 4
    /\ CellSum(budget) = 0

\* the value the record of term recname gives cell i of the grid, split by
\* sign: the entries of a list naming node i, the cell of a full volume, the
\* plane value of the cell's row and column when the cell lies in the layer
\* the 1-based layer array names, the plane value when the cell lies in the
\* top layer
TermValue(recname, i) ==
    LET imeth == cbc.imeth[recname]
        data == cbc.data[tsel][recname]
        n == cbc.shape[2] * cbc.shape[3]
        p == ((i - 1) % n) + 1
        layer == ((i - 1) \div n) + 1
        v == CASE imeth \in {0, 1} -> data[i]
               [] imeth = 3 -> IF data.rlay[p] = layer THEN data.rdata[p] ELSE 0
               [] imeth = 4 -> IF layer = 1 THEN data[p] ELSE 0
               [] OTHER -> 0
    IN  IF imeth \in {2, 5}
        THEN [pos |-> PositiveAt(data, i), neg |-> -NegativeAt(data, i)]
        ELSE [pos |-> IF v > 0 THEN v ELSE 0, neg |-> IF v < 0 THEN -v ELSE 0]

ZoneInflow(recname, z) ==
    SumSeq([i \in 1..NCells(cbc.shape) |-> IF izone[i] = z THEN TermValue(recname, i).pos ELSE 0])
ZoneOutflow(recname, z) ==
    SumSeq([i \in 1..NCells(cbc.shape) |-> IF izone[i] = z THEN TermValue(recname, i).neg ELSE 0])

SourceTerms == {ssst_record_names[k] : k \in 1..Len(ssst_record_names)}

NonNegative(recs) ==
    \A k \in 1..Len(recs.rows) : \A z \in DOMAIN recs.rows[k].vals : recs.rows[k].vals[z] >= 0

\* C17: for every term that is not an internal flow, in any of the four
\* encodings (list, full volume, plane with 1-based layer array, plane of
\* the top layer), and every active zone z, the returned (in, term)[z] is
\* the sum of the term's positive values over the cells of zone z and
\* (out, term)[z] the sum of the magnitudes of its negative values over
\* them; a zone the term does not touch gets 0, and no cell of the record
\* array is ever negative.
C17_SourceTermAccumulation ==
    /\ zonbudrecords # NoRecords => NonNegative(zonbudrecords)
    /\ pc = "done" =>
          /\ NonNegative(budget)
          /\ \A recname \in SourceTerms : \A z \in ActiveZones :
                /\ Cell(budget, "in", Rec(recname), z) = ZoneInflow(recname, z)
                /\ Cell(budget, "out", Rec(recname), z) = ZoneOutflow(recname, z)

\* C17 witness: a finished budget of a file with one term in each of the
\* four encodings, two active zones, and a term with both an inflow and an
\* outflow in one zone and neither in the other
C17_Witness ==
    /\ pc = "done"
    /\ {cbc.imeth[n] : n \in SourceTerms} = {0, 2, 3, 4}
    /\ ActiveZones = {1, 2}
    /\ Cell(budget, "in", Rec("WELLS"), 1) = 3 /\ Cell(budget, "out", Rec("WELLS"), 1) = 4
    /\ Cell(budget, "in", Rec("WELLS"), 2) = 3 /\ Cell(budget, "out", Rec("WELLS"), 2) = 0
    /\ Cell(budget, "out", Rec("RECHARGE"), 1) + Cell(budget, "out", Rec("RECHARGE"), 2) > 0
    /\ Cell(budget, "in", Rec("ET"), 1) + Cell(budget, "in", Rec("ET"), 2) > 0
    /\ Cell(budget, "out", Rec("STORAGE"), 1) > 0 /\ Cell(budget, "in", Rec("STORAGE"), 2) > 0

====
